---- MODULE Spec2Model ----
(***************************************************************************)
(* A model of jwk.RethinkManager (src/jwk/manager_rethinkdb.go): a cache   *)
(* of JSON web key sets (m.Keys) in front of a RethinkDB table, kept up to *)
(* date by a goroutine that reads the table's change feed.                 *)
(*                                                                         *)
(* The table and its change feed are the external store.  The model gives  *)
(* them the behaviour of the interface the manager uses: an insert adds    *)
(* one document with a fresh primary key, a filtered delete removes every  *)
(* matching document, a change feed delivers, in the order of the writes,  *)
(* one (new_val, old_val) pair for every document written while the feed   *)
(* is open, and writes made while no feed is open are never delivered.     *)
(***************************************************************************)
EXTENDS Integers, Sequences, FiniteSets, TLC

\* ---------------------------------------------------------------- bounds
\* The number of documents ever inserted into the table.
MaxRecords == 2
\* The number of in-place updates of a document by another client.
MaxUpdates == 1

\* ----------------------------------------------------------- value domains
Sets == {"s1", "s2"}
Kids == {"k1", "k2"}
\* The material of the keys in the table.
Vals == {"v1", "v2"}
\* The material of a key that json.Marshal rejects.
BadVal == "bad"

\* jose.JsonWebKey (the key id and the key itself): the keys callers add.
JsonWebKey ==
    {[KeyID |-> "k1", Val |-> "v1"], [KeyID |-> "k2", Val |-> "v1"],
     [KeyID |-> "k1", Val |-> BadVal]}

\* The key lists AddKeySet is called with: empty, one key, two keys with the
\* same or with different ids, and lists holding a key that does not marshal.
KeyLists ==
    LET a == [KeyID |-> "k1", Val |-> "v1"]
        b == [KeyID |-> "k2", Val |-> "v1"]
        x == [KeyID |-> "k1", Val |-> BadVal]
    IN  {<<>>, <<b>>, <<a, b>>, <<a, a>>, <<a, x>>, <<x, b>>}

\* json.Marshal of a key: the JSON text carries the kid and the material.
Marshal(key) ==
    IF key.Val = BadVal THEN [ok |-> FALSE, raw |-> <<>>]
    ELSE [ok |-> TRUE, raw |-> <<"jwk", key.KeyID, key.Val>>]

\* A raw message that is not the JSON of a key.
Garbage == <<"garbage">>

\* json.Unmarshal into a jose.JsonWebKey.
Unmarshal(raw) ==
    IF Len(raw) = 3 /\ raw[1] = "jwk"
    THEN [ok |-> TRUE, key |-> [KeyID |-> raw[2], Val |-> raw[3]]]
    ELSE [ok |-> FALSE, key |-> [KeyID |-> "", Val |-> ""]]

\* rethinkSchema, with the primary key the table gives each document.
rethinkSchema(id, kid, set, raw) == [id |-> id, KID |-> kid, Set |-> set, Key |-> raw]

\* A *rethinkSchema of a change: <<>> is nil, <<doc>> points to doc.
Nil == <<>>
Ptr(doc) == <<doc>>
IsNil(p) == Len(p) = 0

\* Error values.
NoErr == "nil"
ErrNotFound == "NotFound"
ErrStore == "StoreFailure"
ErrMarshal == "MarshalFailure"
ErrDecode == "DecodeFailure"

VARIABLES
    store,        \* the table: a set of documents
    nextId,       \* the next primary key the table hands out
    KeysNil,      \* m.Keys == nil
    Keys,         \* m.Keys: set name -> sequence of keys (JsonWebKeySet.Keys)
    mu,           \* who holds m's lock: "free", "watcher", "coldstart"
    connections,  \* the watcher's cursor: "none", "open", "failed", "nil"
    feed,         \* the changes buffered in the open cursor
    wpc,          \* the watcher goroutine's position
    update,       \* the watcher's current change: [new_val, old_val]
    wkeys,        \* the watcher's local `keys` between its read and its write
    cpc,          \* ColdStart's position
    clients,      \* ColdStart's scan cursor: the documents it delivers
    old,          \* history: m.Keys as it was when the running ColdStart was called
    nUpdates      \* the in-place updates made so far

vars == <<store, nextId, KeysNil, Keys, mu, connections, feed, wpc, update, wkeys,
          cpc, clients, old, nUpdates>>

\* The positions of the watcher goroutine after a panic.
Panics == {"panicNilVal", "panicDecode", "panicNilMap", "panicNilCursor"}

\* The process is running: no goroutine has panicked.
Alive == wpc \notin Panics

\* ------------------------------------------------------------ cache helpers
EmptyMap == [s \in {} |-> <<>>]

\* m[set] = keys on a Go map.
MapPut(m, set, keys) == [s \in (DOMAIN m) \cup {set} |-> IF s = set THEN keys ELSE m[s]]

\* m[set] read from a Go map: the zero value when the entry is absent.
MapGet(m, set) == IF set \in DOMAIN m THEN m[set] ELSE <<>>

Range(f) == {f[i] : i \in DOMAIN f}

\* A filter that stops after the first key it drops.
filterFirstOnly(vs, kid) ==
    LET hit == {i \in 1..Len(vs) : vs[i].KeyID = kid}
    IN  IF hit = {} THEN vs
        ELSE LET h == CHOOSE i \in hit : \A j \in hit : i <= j
             IN  SubSeq(vs, 1, h - 1) \o SubSeq(vs, h + 1, Len(vs))

\* filter(vs, f) for f = "k.KeyID != kid": the keys f keeps, in order.
filter(vs, kid) == SelectSeq(vs, LAMBDA k : k.KeyID # kid)

\* JsonWebKeySet.Key(kid): every key of the set with that id.
KeyOf(keys, kid) == SelectSeq(keys, LAMBDA k : k.KeyID = kid)

\* An alloc that makes a new map whether or not there is one.
allocAlways(nil, m) == EmptyMap

\* m.alloc()
alloc(nil, m) == IF nil THEN EmptyMap ELSE m

\* ------------------------------------------------------------------ readers
\* What GetKey(set, kid) returns on the cache m (after alloc).
GetKeyRes(m, set, kid) ==
    IF set \notin DOMAIN m THEN [err |-> ErrNotFound, keys |-> <<>>]
    ELSE IF Len(KeyOf(m[set], kid)) = 0 THEN [err |-> ErrNotFound, keys |-> <<>>]
    ELSE [err |-> NoErr, keys |-> KeyOf(m[set], kid)]

\* A GetKeySet without the test for a set of zero keys.
GetKeySetResNoLen(m, set) ==
    IF set \notin DOMAIN m THEN [err |-> ErrNotFound, keys |-> <<>>]
    ELSE [err |-> NoErr, keys |-> m[set]]

\* What GetKeySet(set) returns on the cache m (after alloc).
GetKeySetRes(m, set) ==
    IF set \notin DOMAIN m THEN [err |-> ErrNotFound, keys |-> <<>>]
    ELSE IF Len(m[set]) = 0 THEN [err |-> ErrNotFound, keys |-> <<>>]
    ELSE [err |-> NoErr, keys |-> m[set]]

\* GetKey takes the lock, allocates the map and reads it.
GetKey(set, kid) ==
    /\ Alive
    /\ mu = "free"
    /\ KeysNil' = FALSE
    /\ Keys' = alloc(KeysNil, Keys)
    /\ UNCHANGED <<store, nextId, mu, connections, feed, wpc, update, wkeys,
                   cpc, clients, old, nUpdates>>

\* GetKeySet takes the lock, allocates the map and reads it.
GetKeySet(set) ==
    /\ Alive
    /\ mu = "free"
    /\ KeysNil' = FALSE
    /\ Keys' = alloc(KeysNil, Keys)
    /\ UNCHANGED <<store, nextId, mu, connections, feed, wpc, update, wkeys,
                   cpc, clients, old, nUpdates>>

\* ------------------------------------------------------------- change feed
RECURSIVE DocsById(_)
\* The documents of a set as a sequence, by primary key.
DocsById(docs) ==
    IF docs = {} THEN <<>>
    ELSE LET d == CHOOSE x \in docs : \A y \in docs : x.id <= y.id
         IN  <<d>> \o DocsById(docs \ {d})

\* The changes the table emits for the deletion of docs.
DeleteEvents(docs) == [i \in 1..Len(docs) |-> [new_val |-> Nil, old_val |-> Ptr(docs[i])]]

\* The changes the table emits for the insertion of docs.
InsertEvents(docs) == [i \in 1..Len(docs) |-> [new_val |-> Ptr(docs[i]), old_val |-> Nil]]

\* The feed after the table emitted evs: only an open cursor receives them.
Emit(evs) == IF connections = "open" THEN feed \o evs ELSE feed

\* ----------------------------------------------------------------- Init
NoUpdate == [new_val |-> Nil, old_val |-> Nil]

Init ==
    /\ store = {}
    /\ nextId = 1
    /\ KeysNil = TRUE
    /\ Keys = EmptyMap
    /\ mu = "free"
    /\ connections = "none"
    /\ feed = <<>>
    /\ wpc = "off"
    /\ update = NoUpdate
    /\ wkeys = <<>>
    /\ cpc = "idle"
    /\ clients = {}
    /\ old = EmptyMap
    /\ nUpdates = 0

\* ------------------------------------------------------------- mutators
\* The first loop of publishAdd: every key marshals.
AllMarshal(keys) == \A i \in 1..Len(keys) : Marshal(keys[i]).ok

\* The documents publishAdd inserts when the insert of key number failAt fails
\* (failAt = 0: none fails): those of the keys before it, in list order.
publishAddDocs(set, keys, failAt) ==
    LET n == IF failAt = 0 THEN Len(keys) ELSE failAt - 1
    IN  [i \in 1..n |-> rethinkSchema(nextId + i - 1, keys[i].KeyID, set, Marshal(keys[i]).raw)]

\* A publishAdd that marshals each key just before inserting it: the keys
\* before the first one that does not marshal are written.
publishAddInterleaved(set, keys, failAt) ==
    LET bad == {i \in 1..Len(keys) : ~Marshal(keys[i]).ok}
        b == IF bad = {} THEN 0 ELSE CHOOSE i \in bad : \A j \in bad : i <= j
    IN  IF b # 0 /\ (failAt = 0 \/ b < failAt)
        THEN [err |-> ErrMarshal, docs |-> publishAddDocs(set, keys, b)]
        ELSE [err |-> IF failAt = 0 THEN NoErr ELSE ErrStore,
              docs |-> publishAddDocs(set, keys, failAt)]

\* publishAdd(set, keys): the error returned and the documents written.
publishAdd(set, keys, failAt) ==
    IF ~AllMarshal(keys) THEN [err |-> ErrMarshal, docs |-> <<>>]
    ELSE [err |-> IF failAt = 0 THEN NoErr ELSE ErrStore,
          docs |-> publishAddDocs(set, keys, failAt)]

\* What a call of publishAdd does to the table and the feed.
Published(r) ==
    /\ nextId + Len(r.docs) - 1 <= MaxRecords
    /\ store' = store \cup Range(r.docs)
    /\ nextId' = nextId + Len(r.docs)
    /\ feed' = Emit(InsertEvents(r.docs))

\* AddKey(set, key), the insert failing or not.
AddKeyCall(set, key, fail) == publishAdd(set, <<key>>, IF fail THEN 1 ELSE 0)

AddKey(set, key, fail) ==
    /\ Alive
    /\ Published(AddKeyCall(set, key, fail))
    /\ UNCHANGED <<KeysNil, Keys, mu, connections, wpc, update, wkeys,
                   cpc, clients, old, nUpdates>>

\* AddKeySet(set, keys), the insert of key number failAt failing (0: none).
AddKeySetCall(set, keys, failAt) == publishAdd(set, keys, failAt)

AddKeySet(set, keys, failAt) ==
    /\ Alive
    /\ Published(AddKeySetCall(set, keys, failAt))
    /\ UNCHANGED <<KeysNil, Keys, mu, connections, wpc, update, wkeys,
                   cpc, clients, old, nUpdates>>

\* The documents a delete filtered by kid and set removes.
MatchKidSet(set, kid) == {d \in store : d.KID = kid /\ d.Set = set}

\* The documents a delete filtered by set removes.
MatchSet(set) == {d \in store : d.Set = set}

\* publishDelete(set, keys) for the keys GetKey(set, kid) returned: one filtered
\* delete per key, all with the same kid, the one numbered failAt failing.
publishDelete(set, kid, keys, failAt) ==
    IF Len(keys) = 0 THEN [err |-> NoErr, docs |-> {}]
    ELSE IF failAt = 1 THEN [err |-> ErrStore, docs |-> {}]
    ELSE [err |-> IF failAt = 0 THEN NoErr ELSE ErrStore,
          docs |-> MatchKidSet(set, kid)]

\* publishDeleteAll(set): one delete filtered by set.
publishDeleteAll(set, fail) ==
    IF fail THEN [err |-> ErrStore, docs |-> {}]
    ELSE [err |-> NoErr, docs |-> MatchSet(set)]

\* What a filtered delete of docs does to the table and the feed.
Deleted(docs) ==
    /\ store' = store \ docs
    /\ feed' = Emit(DeleteEvents(DocsById(docs)))

\* A DeleteKey that deletes from the table whatever the cache lookup says.
DeleteKeyCallNoLookup(set, kid, failAt) ==
    publishDelete(set, kid, <<[KeyID |-> kid, Val |-> "v1"]>>, failAt)

\* DeleteKey(set, kid): the error returned and the documents deleted.
DeleteKeyCall(set, kid, failAt) ==
    LET got == GetKeyRes(alloc(KeysNil, Keys), set, kid)
    IN  IF got.err # NoErr THEN [err |-> got.err, docs |-> {}]
        ELSE publishDelete(set, kid, got.keys, failAt)

DeleteKey(set, kid, failAt) ==
    /\ Alive
    /\ mu = "free"
    /\ failAt <= Len(GetKeyRes(alloc(KeysNil, Keys), set, kid).keys)
    /\ KeysNil' = FALSE
    /\ Keys' = alloc(KeysNil, Keys)
    /\ Deleted(DeleteKeyCall(set, kid, failAt).docs)
    /\ UNCHANGED <<nextId, mu, connections, wpc, update, wkeys,
                   cpc, clients, old, nUpdates>>

\* DeleteKeySet(set): the error returned and the documents deleted.
DeleteKeySetCall(set, fail) == publishDeleteAll(set, fail)

DeleteKeySet(set, fail) ==
    /\ Alive
    /\ Deleted(DeleteKeySetCall(set, fail).docs)
    /\ UNCHANGED <<nextId, KeysNil, Keys, mu, connections, wpc, update, wkeys,
                   cpc, clients, old, nUpdates>>

\* ---------------------------------------------- writes by other clients
\* Another client of the table inserts a document whose key is not a JWK.
ForeignInsert(set) ==
    /\ Alive
    /\ nextId <= MaxRecords
    /\ LET d == rethinkSchema(nextId, "k1", set, Garbage)
       IN  /\ store' = store \cup {d}
           /\ feed' = Emit(<<[new_val |-> Ptr(d), old_val |-> Nil]>>)
    /\ nextId' = nextId + 1
    /\ UNCHANGED <<KeysNil, Keys, mu, connections, wpc, update, wkeys,
                   cpc, clients, old, nUpdates>>

\* Another client of the table replaces the fields of one document in place.
ForeignUpdate(d, kid, set, val) ==
    /\ Alive
    /\ nUpdates < MaxUpdates
    /\ d \in store
    /\ LET d2 == rethinkSchema(d.id, kid, set, Marshal([KeyID |-> kid, Val |-> val]).raw)
       IN  /\ d2 # d
           /\ store' = (store \ {d}) \cup {d2}
           /\ feed' = Emit(<<[new_val |-> Ptr(d2), old_val |-> Ptr(d)]>>)
    /\ nUpdates' = nUpdates + 1
    /\ UNCHANGED <<nextId, KeysNil, Keys, mu, connections, wpc, update, wkeys,
                   cpc, clients, old>>

\* The feed delivers a change that carries neither a new nor an old value.
NilChange ==
    /\ Alive
    /\ nUpdates < MaxUpdates
    /\ feed' = Emit(<<[new_val |-> Nil, old_val |-> Nil]>>)
    /\ nUpdates' = nUpdates + 1
    /\ UNCHANGED <<store, nextId, KeysNil, Keys, mu, connections, wpc, update, wkeys,
                   cpc, clients, old>>

\* ------------------------------------------------------------- the watcher
\* Watch(ctx): the first subscription; on success the goroutine starts.
Watch(fail) ==
    /\ Alive
    /\ wpc = "off"
    /\ IF fail
       THEN UNCHANGED <<connections, wpc>>
       ELSE connections' = "open" /\ wpc' = "next"
    /\ UNCHANGED <<store, nextId, KeysNil, Keys, mu, feed, update, wkeys,
                   cpc, clients, old, nUpdates>>

\* The open change feed breaks: what it had buffered is gone with it.
StreamFail ==
    /\ Alive
    /\ connections = "open"
    /\ connections' = "failed"
    /\ feed' = <<>>
    /\ UNCHANGED <<store, nextId, KeysNil, Keys, mu, wpc, update, wkeys,
                   cpc, clients, old, nUpdates>>

\* connections.Next(&update): the next change, or false on a broken feed.
WatcherNext ==
    /\ Alive
    /\ wpc = "next"
    /\ \/ /\ connections = "open"
          /\ feed # <<>>
          /\ update' = Head(feed)
          /\ feed' = Tail(feed)
          /\ wpc' = "lock"
       \/ /\ connections = "failed"
          /\ wpc' = "closed"
          /\ UNCHANGED <<update, feed>>
    /\ UNCHANGED <<store, nextId, KeysNil, Keys, mu, connections, wkeys,
                   cpc, clients, old, nUpdates>>

\* A dispatch that treats a change with a new and an old value as a deletion.
AfterRemoveUnlock(u) == "unlock"

\* Where the watcher goes after watcherRemove(oldVal).
AfterRemove(u) == IF ~IsNil(u.new_val) THEN "insert" ELSE "unlock"

\* The watcher moves to position pc2 inside its critical section; at "unlock"
\* it runs m.Unlock() and is back at connections.Next.
WatcherGoes(pc2) ==
    IF pc2 = "unlock"
    THEN mu' = "free" /\ update' = NoUpdate /\ wpc' = "next"
    ELSE mu' = "watcher" /\ update' = update /\ wpc' = pc2

\* A removal that keeps every key.
watcherRemoveKeysKeepAll(m, val) == m[val.Set]

\* watcherRemove's new list for the set of val: filter(keys.Keys, ...).
watcherRemoveKeys(m, val) == filter(m[val.Set], val.KID)

\* An insert that skips a key the set already holds.
watcherInsertKeysDedup(m, val) ==
    IF Unmarshal(val.Key).key \in Range(MapGet(m, val.Set))
    THEN MapGet(m, val.Set)
    ELSE Append(MapGet(m, val.Set), Unmarshal(val.Key).key)

\* An append whose result is dropped.
watcherInsertKeysNoAppend(m, val) == MapGet(m, val.Set)

\* watcherInsert's new list for the set of val: append(keys.Keys, c).
watcherInsertKeys(m, val) == Append(MapGet(m, val.Set), Unmarshal(val.Key).key)

\* watcherRemove(val), first half: keys, ok := m.Keys[val.Set] and the filter.
watcherRemoveRead ==
    LET val == update.old_val[1]
    IN  IF val.Set \notin DOMAIN Keys
        THEN /\ WatcherGoes(AfterRemove(update))
             /\ UNCHANGED wkeys
        ELSE /\ wkeys' = watcherRemoveKeys(Keys, val)
             /\ WatcherGoes("removeWrite")

\* watcherInsert(val), first half: the decoding, keys := m.Keys[val.Set] and the
\* append.  A nil val or a key that does not decode panics.
watcherInsertRead ==
    IF IsNil(update.new_val)
    THEN /\ WatcherGoes("panicNilVal")
         /\ UNCHANGED wkeys
    ELSE LET val == update.new_val[1]
             c == Unmarshal(val.Key)
         IN  IF ~c.ok
             THEN /\ WatcherGoes("panicDecode")
                  /\ UNCHANGED wkeys
             ELSE /\ wkeys' = watcherInsertKeys(Keys, val)
                  /\ WatcherGoes("insertWrite")

\* m.Lock(), the dispatch on (newVal, oldVal), and the first half of the
\* function the dispatch calls first.
WatcherLock ==
    /\ Alive
    /\ wpc = "lock"
    /\ mu = "free"
    /\ IF ~IsNil(update.old_val) THEN watcherRemoveRead ELSE watcherInsertRead
    /\ UNCHANGED <<store, nextId, KeysNil, Keys, connections, feed,
                   cpc, clients, old, nUpdates>>

\* watcherRemove(val), second half: m.Keys[val.Set] = keys; then, for a
\* deletion, m.Unlock().
WatcherRemoveWrite ==
    /\ Alive
    /\ wpc = "removeWrite"
    /\ Keys' = MapPut(Keys, update.old_val[1].Set, wkeys)
    /\ wkeys' = <<>>
    /\ WatcherGoes(AfterRemove(update))
    /\ UNCHANGED <<store, nextId, KeysNil, connections, feed,
                   cpc, clients, old, nUpdates>>

\* The update case between watcherRemove(oldVal) and watcherInsert(newVal).
WatcherInsert ==
    /\ Alive
    /\ wpc = "insert"
    /\ watcherInsertRead
    /\ UNCHANGED <<store, nextId, KeysNil, Keys, connections, feed,
                   cpc, clients, old, nUpdates>>

\* watcherInsert(val), second half: m.Keys[val.Set] = keys, which panics on a
\* nil map; then m.Unlock().
WatcherInsertWrite ==
    /\ Alive
    /\ wpc = "insertWrite"
    /\ IF KeysNil
       THEN /\ WatcherGoes("panicNilMap")
            /\ UNCHANGED Keys
       ELSE /\ Keys' = MapPut(Keys, update.new_val[1].Set, wkeys)
            /\ WatcherGoes("unlock")
    /\ wkeys' = <<>>
    /\ UNCHANGED <<store, nextId, KeysNil, connections, feed,
                   cpc, clients, old, nUpdates>>

\* connections.Close(), the logging, and the new subscription.  When the new
\* subscription fails, connections is the nil cursor Run returned with its
\* error, and logging connections.Err() dereferences it.
WatcherResubscribe(fail) ==
    /\ Alive
    /\ wpc = "closed"
    /\ IF fail
       THEN connections' = "nil" /\ wpc' = "panicNilCursor"
       ELSE connections' = "open" /\ wpc' = "next"
    /\ feed' = <<>>
    /\ UNCHANGED <<store, nextId, KeysNil, Keys, mu, update, wkeys,
                   cpc, clients, old, nUpdates>>

\* --------------------------------------------------------------- ColdStart
\* m.Keys = map[string]jose.JsonWebKeySet{}, before the lock is taken.
ColdStartReset ==
    /\ Alive
    /\ cpc = "idle"
    /\ old' = Keys
    /\ KeysNil' = FALSE
    /\ Keys' = EmptyMap
    /\ cpc' = "run"
    /\ UNCHANGED <<store, nextId, mu, connections, feed, wpc, update, wkeys,
                   clients, nUpdates>>

\* clients, err := m.Table.Run(m.Session); an error is returned at once.
ColdStartRun(fail) ==
    /\ Alive
    /\ cpc = "run"
    /\ IF fail
       THEN cpc' = "idle" /\ old' = EmptyMap /\ UNCHANGED clients
       ELSE cpc' = "lock" /\ clients' = store /\ UNCHANGED old
    /\ UNCHANGED <<store, nextId, KeysNil, Keys, mu, connections, feed, wpc, update,
                   wkeys, nUpdates>>

\* m.Lock()
ColdStartLock ==
    /\ Alive
    /\ cpc = "lock"
    /\ mu = "free"
    /\ mu' = "coldstart"
    /\ cpc' = "scan"
    /\ UNCHANGED <<store, nextId, KeysNil, Keys, connections, feed, wpc, update,
                   wkeys, clients, old, nUpdates>>

\* The orders in which a scan can deliver the documents docs.
Orders(docs) ==
    {o \in [1..Cardinality(docs) -> docs] : \A i, j \in DOMAIN o : o[i] = o[j] => i = j}

\* The body of ColdStart's loop for document raw on the map m.
ColdStartAppend(m, raw) ==
    MapPut(m, raw.Set, Append(MapGet(m, raw.Set), Unmarshal(raw.Key).key))

RECURSIVE ColdStartLoop(_, _)
\* ColdStart's loop over the documents the scan delivers, in order: the map it
\* leaves and the error it returns.
ColdStartLoop(m, order) ==
    IF order = <<>> THEN [Keys |-> m, err |-> NoErr]
    ELSE IF ~Unmarshal(Head(order).Key).ok THEN [Keys |-> m, err |-> ErrDecode]
    ELSE ColdStartLoop(ColdStartAppend(m, Head(order)), Tail(order))

\* The loop, the return and the deferred m.Unlock().
ColdStartScan(order) ==
    /\ Alive
    /\ cpc = "scan"
    /\ order \in Orders(clients)
    /\ Keys' = ColdStartLoop(Keys, order).Keys
    /\ mu' = "free"
    /\ cpc' = "idle"
    /\ clients' = {}
    /\ old' = EmptyMap
    /\ UNCHANGED <<store, nextId, KeysNil, connections, feed, wpc, update,
                   wkeys, nUpdates>>

\* ------------------------------------------------------------ specification
Mutators ==
    \/ \E set \in Sets, key \in JsonWebKey, fail \in BOOLEAN : AddKey(set, key, fail)
    \/ \E set \in Sets, keys \in KeyLists :
          \E failAt \in 0..Len(keys) : AddKeySet(set, keys, failAt)
    \/ \E set \in Sets, kid \in Kids, failAt \in 0..MaxRecords : DeleteKey(set, kid, failAt)
    \/ \E set \in Sets, fail \in BOOLEAN : DeleteKeySet(set, fail)

Readers ==
    \/ \E set \in Sets, kid \in Kids : GetKey(set, kid)
    \/ \E set \in Sets : GetKeySet(set)

Foreign ==
    \/ \E set \in Sets : ForeignInsert(set)
    \/ \E d \in store, kid \in Kids, set \in Sets, val \in Vals :
          ForeignUpdate(d, kid, set, val)

\* The watcher goroutine on changes that insert or delete a document.
Watcher ==
    \/ WatcherNext
    \/ WatcherLock
    \/ WatcherRemoveWrite
    \/ WatcherInsertWrite

Faults ==
    \/ StreamFail
    \/ \E fail \in BOOLEAN : WatcherResubscribe(fail)

ColdStart ==
    \/ ColdStartReset
    \/ \E fail \in BOOLEAN : ColdStartRun(fail)
    \/ ColdStartLock
    \/ \E order \in Orders(clients) : ColdStartScan(order)

\* Every operation of the manager, by this process or by another one running
\* the same code on the same table, with a change feed that can break.
Next ==
    \/ Mutators
    \/ Readers
    \/ \E fail \in BOOLEAN : Watch(fail)
    \/ Watcher
    \/ Faults
    \/ ColdStart

Spec == Init /\ [][Next]_vars

\* The manager on a change feed that never breaks once it is open.
NextNoFault ==
    \/ Mutators
    \/ Readers
    \/ \E fail \in BOOLEAN : Watch(fail)
    \/ Watcher
    \/ ColdStart

SpecNoFault == Init /\ [][NextNoFault]_vars

\* The manager before Watch is called: ColdStart runs, and runs again, while
\* other clients write to the table, malformed keys included.
NextStartup ==
    \/ Mutators
    \/ Readers
    \/ \E set \in Sets : ForeignInsert(set)
    \/ ColdStart

SpecStartup == Init /\ [][NextStartup]_vars

\* The phases of the documented life cycle: the table is filled by other
\* processes before this one has touched its cache; ColdStart runs; ColdStart
\* has completed and Watch is due; the watcher runs.
Populating == wpc = "off" /\ cpc = "idle" /\ KeysNil
Loading == wpc = "off" /\ cpc # "idle"
Loaded == wpc = "off" /\ cpc = "idle" /\ ~KeysNil
Watching == wpc # "off"

\* The documented life cycle without faults: other processes fill the table,
\* ColdStart completes, Watch subscribes with no write in between, and from
\* then on the mutators, the readers and the watcher run.
NextSync ==
    \/ \E set \in Sets, key \in JsonWebKey : Populating /\ AddKey(set, key, FALSE)
    \/ \E set \in Sets, keys \in KeyLists : Populating /\ AddKeySet(set, keys, 0)
    \/ \E set \in Sets : Populating /\ DeleteKeySet(set, FALSE)
    \/ Populating /\ ColdStartReset
    \/ Loading /\ ColdStartRun(FALSE)
    \/ Loading /\ ColdStartLock
    \/ \E order \in Orders(clients) : Loading /\ ColdStartScan(order)
    \/ Loaded /\ Watch(FALSE)
    \/ Watching /\ Mutators
    \/ Watching /\ Readers
    \/ Watching /\ Watcher

SpecSync == Init /\ [][NextSync]_vars

\* The manager with another client that rewrites documents in place and
\* inserts malformed ones.
NextForeign ==
    \/ \E set \in Sets, key \in JsonWebKey : AddKey(set, key, FALSE)
    \/ Readers
    \/ Foreign
    \/ Watch(FALSE)
    \/ Watcher
    \/ WatcherInsert
    \/ ColdStart

SpecForeign == Init /\ [][NextForeign]_vars

\* The watcher on every shape of change the dispatch distinguishes: inserts,
\* deletions, replacements, and a change with neither value.
NextChanges ==
    \/ \E set \in Sets, key \in JsonWebKey : AddKey(set, key, FALSE)
    \/ \E set \in Sets : DeleteKeySet(set, FALSE)
    \/ \E set \in Sets : GetKeySet(set)
    \/ \E d \in store, kid \in Kids, set \in Sets, val \in Vals :
          ForeignUpdate(d, kid, set, val)
    \/ NilChange
    \/ Watch(FALSE)
    \/ Watcher
    \/ WatcherInsert

SpecChanges == Init /\ [][NextChanges]_vars

\* The documented life cycle on a stream that breaks while no change is
\* waiting in it, with a watcher whose new subscription succeeds: what is
\* written between the break and the new subscription is the only thing the
\* watcher can miss.
NextOutage ==
    \/ \E set \in Sets, key \in JsonWebKey : Populating /\ AddKey(set, key, FALSE)
    \/ Populating /\ ColdStartReset
    \/ Loading /\ ColdStartRun(FALSE)
    \/ Loading /\ ColdStartLock
    \/ \E order \in Orders(clients) : Loading /\ ColdStartScan(order)
    \/ Loaded /\ Watch(FALSE)
    \/ \E set \in Sets, key \in JsonWebKey : Watching /\ AddKey(set, key, FALSE)
    \/ \E set \in Sets : Watching /\ DeleteKeySet(set, FALSE)
    \/ Watching /\ Readers
    \/ Watching /\ Watcher
    \/ Watching /\ feed = <<>> /\ StreamFail
    \/ Watching /\ WatcherResubscribe(FALSE)

SpecOutage == Init /\ [][NextOutage]_vars

\* The documented life cycle without faults, with other processes that go on
\* writing between the return of ColdStart and the call of Watch.
NextGap ==
    \/ \E set \in Sets, key \in JsonWebKey : Populating /\ AddKey(set, key, FALSE)
    \/ Populating /\ ColdStartReset
    \/ Loading /\ ColdStartRun(FALSE)
    \/ Loading /\ ColdStartLock
    \/ \E order \in Orders(clients) : Loading /\ ColdStartScan(order)
    \/ \E set \in Sets, key \in JsonWebKey : Loaded /\ AddKey(set, key, FALSE)
    \/ \E set \in Sets : Loaded /\ DeleteKeySet(set, FALSE)
    \/ Loaded /\ Watch(FALSE)
    \/ Watching /\ Mutators
    \/ Watching /\ Readers
    \/ Watching /\ Watcher

SpecGap == Init /\ [][NextGap]_vars

\* The documented life cycle without faults, with ColdStart run again while
\* the watcher runs.
NextRerun ==
    \/ \E set \in Sets, key \in JsonWebKey : Populating /\ AddKey(set, key, FALSE)
    \/ Populating /\ ColdStartReset
    \/ Loading /\ ColdStartRun(FALSE)
    \/ Loading /\ ColdStartLock
    \/ \E order \in Orders(clients) : Loading /\ ColdStartScan(order)
    \/ Loaded /\ Watch(FALSE)
    \/ \E set \in Sets, key \in JsonWebKey : Watching /\ AddKey(set, key, FALSE)
    \/ \E set \in Sets : Watching /\ DeleteKeySet(set, FALSE)
    \/ Watching /\ Readers
    \/ Watching /\ Watcher
    \/ Watching /\ ColdStartReset
    \/ Watching /\ ColdStartRun(FALSE)
    \/ Watching /\ ColdStartLock
    \/ \E order \in Orders(clients) : Watching /\ ColdStartScan(order)

SpecRerun == Init /\ [][NextRerun]_vars

\* ------------------------------------------------------------ properties
\* The document AddKey(set, key) wrote under primary key id.
AddedDoc(id, set, key) == rethinkSchema(id, key.KeyID, set, Marshal(key).raw)

\* The watcher finishes applying a change that only inserts.
InsertApplied == wpc = "insertWrite" /\ wpc' = "next" /\ IsNil(update.old_val)

\* C1: when the watcher has applied the insert change of the document that a
\* successful AddKey(S, K) wrote, GetKey(S, K.kid) does not return NotFound
\* and its result contains K.
C1_WriteVisibility ==
    [][InsertApplied =>
         \E key \in JsonWebKey :
            LET val == update.new_val[1]
                got == GetKeyRes(alloc(KeysNil', Keys'), val.Set, key.KeyID)
            IN  /\ val = AddedDoc(val.id, val.Set, key)
                /\ got.err = NoErr
                /\ key \in Range(got.keys)]_vars

\* C1: the watcher holds the insert change of a document AddKey wrote and is
\* about to store the set's new list in the allocated map.
C1_Witness ==
    /\ wpc = "insertWrite"
    /\ ~KeysNil
    /\ IsNil(update.old_val)
    /\ update.new_val[1] \in store
    /\ \E key \in JsonWebKey : key \in Range(wkeys) /\ key.KeyID = update.new_val[1].KID

\* The watcher finishes applying a change that only deletes.
DeleteApplied ==
    /\ wpc \in {"lock", "removeWrite"}
    /\ wpc' = "next"
    /\ ~IsNil(update.old_val)
    /\ IsNil(update.new_val)

\* C2: when the watcher has applied the delete change of a document
\* (K.kid, S), GetKey(S, K.kid) returns NotFound; the removal drops every key
\* of S with that kid, keeps the others in order, and changes nothing when S
\* has no cache entry.
C2_DeleteVisibility ==
    /\ [][DeleteApplied =>
            LET val == update.old_val[1]
            IN  /\ GetKeyRes(alloc(KeysNil', Keys'), val.Set, val.KID).err = ErrNotFound
                /\ \A k \in Range(MapGet(Keys', val.Set)) : k.KeyID # val.KID
                /\ (wpc = "lock" => val.Set \notin DOMAIN Keys /\ Keys' = Keys)]_vars
    /\ [][(wpc = "lock" /\ wpc' = "removeWrite") =>
            LET val == update.old_val[1]
            IN  /\ val.Set \in DOMAIN Keys
                /\ \A k \in Range(wkeys') : k.KeyID # val.KID
                /\ \A kid \in Kids \ {val.KID} :
                      KeyOf(wkeys', kid) = KeyOf(Keys[val.Set], kid)]_vars
    /\ [][(wpc = "removeWrite" /\ wpc' # wpc) =>
            LET val == update.old_val[1]
            IN  /\ Keys'[val.Set] = wkeys
                /\ \A set \in DOMAIN Keys \ {val.Set} : Keys'[set] = Keys[set]]_vars

\* C2: the last key of a set is gone from the cache after a delete change:
\* the set's entry is there, with no key, while the other set keeps a key.
C2_Witness ==
    /\ wpc = "next"
    /\ feed = <<>>
    /\ \E set \in DOMAIN Keys :
          /\ Keys[set] = <<>>
          /\ MatchSet(set) = {}
          /\ \E other \in DOMAIN Keys : Keys[other] # <<>>

\* The key a document carries.
DocKey(d) == Unmarshal(d.Key).key

\* How often key occurs in the list keys.
Count(keys, key) == Len(SelectSeq(keys, LAMBDA k : k = key))

\* The cache m holds, set by set, exactly the keys of the documents docs.
Grouped(m, docs) ==
    \A set \in Sets :
       \A key \in Range(MapGet(m, set)) \cup {DocKey(d) : d \in docs} :
          Count(MapGet(m, set), key)
             = Cardinality({d \in docs : d.Set = set /\ DocKey(d) = key})

\* ColdStart's loop ends and ColdStart returns err.
ColdStartReturns(err) ==
    /\ cpc = "scan"
    /\ cpc' = "idle"
    /\ \E order \in Orders(clients) :
          /\ ColdStartLoop(Keys, order).err = err
          /\ ColdStartLoop(Keys, order).Keys = Keys'

\* C3: when ColdStart returns success, the cache holds for every set exactly
\* the keys of the documents the scan delivered for it, has no entry for any
\* other set, and keeps nothing else, whatever the order of the scan.
C3_ColdStartFidelity ==
    [][ColdStartReturns(NoErr) =>
         /\ Grouped(Keys', clients)
         /\ DOMAIN Keys' = {d.Set : d \in clients}]_vars

\* The watcher is subscribed, has nothing to apply and is applying nothing.
Quiescent == wpc = "next" /\ connections = "open" /\ feed = <<>>

\* C4: ColdStart having completed and the watcher having subscribed with no
\* write in between on a stream that never fails, whenever every change of
\* the AddKey, AddKeySet, DeleteKey and DeleteKeySet calls made so far has
\* been applied, the cache grouped by set equals the table grouped by set.
C4_Convergence == Quiescent => Grouped(Keys, store)

\* C4: all changes are applied after an insertion and a deletion were: the
\* table holds a document written after ColdStart, a set has lost its keys.
C4_Witness ==
    /\ Quiescent
    /\ \E d \in store : d.id = MaxRecords /\ DocKey(d) \in Range(MapGet(Keys, d.Set))
    /\ \E set \in DOMAIN Keys : Keys[set] = <<>>

\* C5: the watcher does not crash when its stream has failed and it closes
\* the cursor and subscribes again.
C5_SelfHealing == wpc # "panicNilCursor"

\* C6: a DeleteKey(S, kid) whose cache lookup finds no key returns NotFound
\* and leaves the table and its feed alone, whatever the table holds; the
\* table loses documents only when the lookup succeeds, and then exactly
\* those with that kid and set.
C6_DeleteKeyNotFound ==
    /\ [](\A set \in Sets, kid \in Kids, failAt \in 0..MaxRecords :
             GetKeyRes(alloc(KeysNil, Keys), set, kid).err = ErrNotFound =>
                DeleteKeyCall(set, kid, failAt) = [err |-> ErrNotFound, docs |-> {}])
    /\ [][store' # store =>
             \A set \in Sets, kid \in Kids, failAt \in 0..MaxRecords :
                DeleteKey(set, kid, failAt) =>
                   /\ GetKeyRes(alloc(KeysNil, Keys), set, kid).err = NoErr
                   /\ store' = store \ MatchKidSet(set, kid)
                   /\ MatchKidSet(set, kid) # {}]_vars

\* C6: the table holds a document whose insert change the watcher has yet to
\* apply, and DeleteKey for its kid and set returns NotFound.
C6_Witness ==
    /\ mu = "free"
    /\ ~KeysNil
    /\ \E d \in store :
          /\ \E i \in 1..Len(feed) : feed[i] = [new_val |-> Ptr(d), old_val |-> Nil]
          /\ GetKeyRes(Keys, d.Set, d.KID).err = ErrNotFound
          /\ DeleteKeyCall(d.Set, d.KID, 0) = [err |-> ErrNotFound, docs |-> {}]

\* C7: a set whose cache entry holds no key reads like a set with no entry:
\* GetKeySet and GetKey, for every kid, return NotFound.
C7_EmptySetIsAbsent ==
    \A set \in DOMAIN Keys :
       Keys[set] = <<>> =>
          /\ GetKeySetRes(Keys, set) = GetKeySetRes(EmptyMap, set)
          /\ GetKeySetRes(Keys, set).err = ErrNotFound
          /\ \A kid \in Kids :
                /\ GetKeyRes(Keys, set, kid) = GetKeyRes(EmptyMap, set, kid)
                /\ GetKeyRes(Keys, set, kid).err = ErrNotFound

\* C7: a reader can run while a set's entry is in the cache with no key.
C7_Witness ==
    /\ mu = "free"
    /\ \E set \in Sets : set \in DOMAIN Keys /\ Len(Keys[set]) = 0

\* The watcher holds a change with a new and an old value.
IsUpdate == ~IsNil(update.old_val) /\ ~IsNil(update.new_val)

\* The watcher finishes applying a change with a new and an old value.
UpdateApplied == IsUpdate /\ wpc # "next" /\ wpc' = "next"

\* The watcher is between the removal and the insertion of such a change.
InUpdate == IsUpdate /\ wpc \in {"removeWrite", "insert", "insertWrite"}

\* No entry of the old set has the old kid, the new entry apart.
OldEntryReplaced(m, o, n) ==
    \A k \in Range(MapGet(m, o.Set)) :
       k.KeyID = o.KID => n.Set = o.Set /\ k = DocKey(n)

\* No reader runs: the lock is the watcher's.
NoReader ==
    /\ mu = "watcher"
    /\ \A set \in Sets :
          /\ ~ENABLED GetKeySet(set)
          /\ \A kid \in Kids : ~ENABLED GetKey(set, kid)

\* C8, as the specification states it: after the watcher applies a change
\* with a new and an old value, the cache has no entry for the old set and
\* kid other than the new one and exactly one entry for the new value under
\* the new set, and no reader runs between the removal and the insertion.
C8_UpdateSemantics ==
    /\ [][UpdateApplied =>
            LET o == update.old_val[1]
                n == update.new_val[1]
            IN  /\ OldEntryReplaced(Keys', o, n)
                /\ Count(MapGet(Keys', n.Set), DocKey(n)) = 1]_vars
    /\ [](InUpdate => NoReader)

\* C8, amended: after the watcher applies a change with a new and an old
\* value, the cache has no entry for the old set and kid other than the new
\* one; the new set holds the keys the watcher read from it after the
\* removal and one more entry for the new value, which is the only entry
\* with its kid when the change keeps the set and the kid; and no reader
\* runs between the removal and the insertion.
C8_UpdateSemanticsAmended ==
    /\ [][UpdateApplied =>
            LET o == update.old_val[1]
                n == update.new_val[1]
            IN  /\ wpc = "insertWrite"
                /\ OldEntryReplaced(Keys', o, n)
                /\ Keys'[n.Set] = wkeys
                /\ Count(Keys'[n.Set], DocKey(n)) >= 1
                /\ (n.Set = o.Set /\ n.KID = o.KID) =>
                      Len(KeyOf(Keys'[n.Set], n.KID)) = 1]_vars
    /\ [][(IsUpdate /\ wpc = "insert" /\ wpc' = "insertWrite") =>
            LET n == update.new_val[1]
            IN  wkeys' = Append(MapGet(Keys, n.Set), DocKey(n))]_vars
    /\ [](InUpdate => NoReader)

\* C8: the watcher has removed the old entry of a change that keeps the set
\* and the kid of a cached key and is about to store the list with the new
\* entry, holding the lock.
C8_Witness ==
    /\ IsUpdate
    /\ wpc = "insertWrite"
    /\ ~KeysNil
    /\ update.new_val[1].Set = update.old_val[1].Set
    /\ update.new_val[1].KID = update.old_val[1].KID
    /\ update.old_val[1].Set \in DOMAIN Keys
    /\ wkeys = <<DocKey(update.new_val[1])>>
    /\ mu = "watcher"

\* The keys the cache m holds, over all sets.
Held(m) == UNION {Range(m[set]) : set \in DOMAIN m}

\* C9: when ColdStart returns an error, be it on opening the scan or on a
\* document that does not decode, the cache holds no partial load (some of
\* the scanned documents' keys but not all) and has not lost all of the
\* content it had when ColdStart was called.
C9_ColdStartFailure ==
    /\ [][ColdStartReturns(ErrDecode) =>
            /\ ~(Held(Keys') # {} /\ Cardinality(Held(Keys')) < Cardinality(clients))
            /\ ~(Held(old) # {} /\ Held(Keys') = {})]_vars
    /\ [][(cpc = "run" /\ cpc' = "idle") =>
            ~(Held(old) # {} /\ Held(Keys') = {})]_vars

\* No change waiting in the feed concerns the set.
NoneWaiting(f, set) ==
    \A i \in 1..Len(f) :
       /\ IsNil(f[i].new_val) \/ f[i].new_val[1].Set # set
       /\ IsNil(f[i].old_val) \/ f[i].old_val[1].Set # set

\* C10: DeleteKeySet(S) makes one delete filtered by S and leaves the cache
\* alone; when the watcher has applied the delete changes of the documents S
\* held, none being left in the table or waiting in the feed, GetKeySet(S)
\* returns NotFound and the entries of the other sets are as before.
C10_WholeSetDelete ==
    /\ [][store' # store =>
            \A set \in Sets :
               DeleteKeySet(set, FALSE) =>
                  /\ store' = store \ MatchSet(set)
                  /\ Keys' = Keys
                  /\ KeysNil' = KeysNil]_vars
    /\ [][DeleteApplied =>
            LET set == update.old_val[1].Set
            IN  /\ (MatchSet(set) = {} /\ NoneWaiting(feed, set)) =>
                      GetKeySetRes(alloc(KeysNil', Keys'), set).err = ErrNotFound
                /\ \A other \in Sets \ {set} :
                      MapGet(Keys', other) = MapGet(Keys, other)]_vars


\* A mutator runs: AddKey, AddKeySet, DeleteKey or DeleteKeySet.
MutatorStep ==
    \/ \E set \in Sets, key \in JsonWebKey, fail \in BOOLEAN : AddKey(set, key, fail)
    \/ \E set \in Sets, keys \in KeyLists :
          \E failAt \in 0..Len(keys) : AddKeySet(set, keys, failAt)
    \/ \E set \in Sets, kid \in Kids, failAt \in 0..MaxRecords : DeleteKey(set, kid, failAt)
    \/ \E set \in Sets, fail \in BOOLEAN : DeleteKeySet(set, fail)

\* ColdStart replaces the map or ends its loop, or the watcher stores a list.
LoaderOrWatcherStep ==
    \/ cpc = "idle" /\ cpc' = "run"
    \/ cpc = "scan" /\ cpc' = "idle"
    \/ wpc \in {"removeWrite", "insertWrite"} /\ wpc' # wpc

\* C11: no step of AddKey, AddKeySet, DeleteKey or DeleteKeySet changes the
\* contents of the cache; every step that changes them is a step of ColdStart
\* or of the watcher storing the list of a change it applies.
C11_MutatorsFrame ==
    /\ [][Keys' # Keys => ~MutatorStep]_vars
    /\ [][Keys' # Keys => LoaderOrWatcherStep]_vars

\* C11: DeleteKey has deleted a document whose key the cache still holds,
\* the delete change waiting in the feed.
C11_Witness ==
    \E i \in 1..Len(feed) :
       /\ IsNil(feed[i].new_val)
       /\ ~IsNil(feed[i].old_val)
       /\ feed[i].old_val[1] \notin store
       /\ Unmarshal(feed[i].old_val[1].Key).key
             \in Range(MapGet(Keys, feed[i].old_val[1].Set))

\* The documents the keys 1..n of the list get from a table whose next
\* primary key is id.
FirstDocs(id, set, keys, n) ==
    {rethinkSchema(id + j - 1, keys[j].KeyID, set, Marshal(keys[j]).raw) : j \in 1..n}

\* C12: AddKeySet writes one document per key in list order; when the insert
\* of key i fails the documents of keys 1..i-1 stay written, none is written
\* for the keys after it and the caller gets that error; when a key does not
\* marshal no document is written.
C12_AddKeySetNotAtomic ==
    /\ [](\A set \in Sets, keys \in KeyLists :
            \A failAt \in 0..Len(keys) :
               LET r == AddKeySetCall(set, keys, failAt)
                   n == IF failAt = 0 THEN Len(keys) ELSE failAt - 1
               IN  IF \E i \in 1..Len(keys) : ~Marshal(keys[i]).ok
                   THEN r.err = ErrMarshal /\ Len(r.docs) = 0
                   ELSE /\ r.err = IF failAt = 0 THEN NoErr ELSE ErrStore
                        /\ Len(r.docs) = n
                        /\ \A j \in 1..n :
                              r.docs[j] = rethinkSchema(nextId + j - 1, keys[j].KeyID,
                                                        set, Marshal(keys[j]).raw))
    /\ [][store' # store =>
            \A set \in Sets, keys \in KeyLists :
               \A failAt \in 0..Len(keys) :
                  AddKeySet(set, keys, failAt) =>
                     /\ \A i \in 1..Len(keys) : Marshal(keys[i]).ok
                     /\ store' = store \cup FirstDocs(nextId, set, keys,
                                     IF failAt = 0 THEN Len(keys) ELSE failAt - 1)
                     /\ FirstDocs(nextId, set, keys, Len(keys)) \cap store = {}]_vars

\* C12: the first key of a list is written and nothing else is: the table
\* holds one document, the next primary key is 2, its insert change waits.
C12_Witness ==
    /\ nextId = 2
    /\ connections = "open"
    /\ \E set \in Sets, keys \in KeyLists :
          /\ Len(keys) = 2
          /\ AddKeySetCall(set, keys, 2).err = ErrStore
          /\ store = FirstDocs(1, set, keys, 1)
          /\ feed = <<[new_val |-> Ptr(rethinkSchema(1, keys[1].KeyID, set,
                                                      Marshal(keys[1]).raw)),
                       old_val |-> Nil]>>


\* C13: no thread reads or writes the cache mapping while another thread
\* holds the manager's lock: a step that changes the mapping is made with the
\* lock free, or by the watcher or ColdStart while it is the holder.
C13_LockDiscipline ==
    [][(Keys' # Keys \/ KeysNil' # KeysNil) =>
          \/ mu = "free"
          \/ mu = "watcher" /\ wpc' # wpc
          \/ mu = "coldstart" /\ cpc = "scan"]_vars


\* watcherInsert has computed the new list of the set of a change.
InsertRead == wpc # "insertWrite" /\ wpc' = "insertWrite"

\* watcherRemove has computed the new list of the set of a change.
RemoveRead == wpc = "lock" /\ wpc' = "removeWrite"

\* The number of keys with the kid in the list.
Instances(keys, kid) == Len(KeyOf(keys, kid))

\* C14, as the specification states it: every insert change for (set, kid)
\* adds one cache entry for the kid, and every delete change for (set, kid)
\* removes exactly one of them.
C14_DuplicateHandling ==
    /\ [][InsertRead =>
            LET n == update.new_val[1]
            IN  Instances(wkeys', n.KID) = Instances(MapGet(Keys, n.Set), n.KID) + 1]_vars
    /\ [][RemoveRead =>
            LET o == update.old_val[1]
            IN  Instances(Keys[o.Set], o.KID) > 0 =>
                   Instances(wkeys', o.KID) = Instances(Keys[o.Set], o.KID) - 1]_vars

\* C14, amended: every insert change for (set, kid) adds one cache entry for
\* the kid, and the first delete change for (set, kid) applied after them
\* removes all of them at once.
C14_DuplicateHandlingAmended ==
    /\ [][InsertRead =>
            LET n == update.new_val[1]
            IN  Instances(wkeys', n.KID) = Instances(MapGet(Keys, n.Set), n.KID) + 1]_vars
    /\ [][RemoveRead =>
            LET o == update.old_val[1]
            IN  /\ Instances(wkeys', o.KID) = 0
                /\ Len(wkeys') = Len(Keys[o.Set]) - Instances(Keys[o.Set], o.KID)]_vars
    /\ [][(wpc = "removeWrite" /\ wpc' # wpc) =>
            Instances(Keys'[update.old_val[1].Set], update.old_val[1].KID) = 0]_vars

\* C14: the cache holds two entries for a kid, the watcher applies the first
\* of two delete changes for it and is about to store a list with neither.
C14_Witness ==
    /\ wpc = "removeWrite"
    /\ IsNil(update.new_val)
    /\ LET o == update.old_val[1]
       IN  /\ o.Set \in DOMAIN Keys
           /\ Instances(Keys[o.Set], o.KID) = 2
           /\ Instances(wkeys, o.KID) = 0
           /\ \E i \in 1..Len(feed) :
                 /\ IsNil(feed[i].new_val)
                 /\ ~IsNil(feed[i].old_val)
                 /\ feed[i].old_val[1].Set = o.Set
                 /\ feed[i].old_val[1].KID = o.KID


\* The watcher has locked and dispatched the change it received.
Dispatched == wpc = "lock" /\ wpc' # "lock"

\* C15: a change with no new value and an old one only removes; a change with
\* both removes and then inserts; every other change inserts, and for the
\* change with neither value the watcher then goes on to the next change.
C15_EventClassification ==
    [][Dispatched =>
         /\ (IsNil(update.new_val) /\ ~IsNil(update.old_val)) =>
               wpc' \in {"removeWrite", "next"}
         /\ (~IsNil(update.new_val) /\ ~IsNil(update.old_val)) =>
               wpc' \in {"removeWrite", "insert"}
         /\ (~IsNil(update.new_val) /\ IsNil(update.old_val)) =>
               wpc' \in {"insertWrite", "panicDecode"}
         /\ (IsNil(update.new_val) /\ IsNil(update.old_val)) =>
               wpc' \in {"insertWrite", "next"}]_vars


\* The watcher leaves line 184, where it re-issues the subscription.
Resubscribed == wpc = "closed" /\ wpc' # "closed"

\* C16: whether the re-issued subscription succeeds or fails, the watcher is
\* then back in its loop, about to take the next change or to subscribe again;
\* it never stops.
C16_NeverGivesUp == [][Resubscribed => wpc' \in {"next", "closed"}]_vars


\* watcherInsert runs m.Keys[val.Set] = keys, line 202.
InsertWrites == wpc = "insertWrite" /\ wpc' # wpc

\* C17: whenever the watcher stores the list of an insert, the mapping is
\* allocated, whatever ran before, and the store succeeds.
C17_LazyInit == [][InsertWrites => (~KeysNil /\ wpc' \notin Panics)]_vars


\* The keys the cache holds for the set are those of the set's documents.
SameKeys(set) ==
    Range(MapGet(Keys, set)) = {DocKey(d) : d \in MatchSet(set)}

\* C18: the stream having failed and the watcher having subscribed again,
\* whenever the watcher has nothing left to apply, a document inserted during
\* the outage has its key in the cache and a document deleted during the
\* outage has not.
C18_NoWriteLostInOutage == Quiescent => \A set \in Sets : SameKeys(set)

\* C19: ColdStart having returned and Watch having subscribed afterwards,
\* whenever the watcher has nothing left to apply, the cache holds for every
\* set and kid as many keys as the table holds documents, those written or
\* deleted between the two calls included.
C19_NoWriteLostAtStartup ==
    Quiescent =>
       \A set \in Sets, kid \in Kids :
          Instances(MapGet(Keys, set), kid) = Cardinality(MatchKidSet(set, kid))

\* C20: ColdStart having been run again beside the watcher and having
\* returned, whenever the watcher has nothing left to apply, the cache
\* grouped by set equals the table grouped by set: no document appears twice.
C20_RerunResynchronises == (cpc = "idle" /\ Quiescent) => Grouped(Keys, store)

====
